---- MODULE Spec2Model ----
(***************************************************************************)
(* litellm/llms/custom_httpx/http_handler.py as a state machine.           *)
(*                                                                         *)
(* State: the process-wide client cache (litellm.in_memory_llm_clients_    *)
(* cache), the handler objects constructed so far, and, per caller, the    *)
(* position inside the call it is executing together with that call's      *)
(* locals.  The wrapped transport (httpx) is the environment: what a send  *)
(* yields is drawn from Outcomes.                                          *)
(***************************************************************************)
EXTENDS Integers, Sequences, FiniteSets, TLC

\* ------------------------------------------------------------- bounds
NumThreads == 2
MaxHandlers == 2

Threads == 1..NumThreads

\* ------------------------------------------------------------- constants
DefaultOverall == 5
DefaultConnect == 5
LongLivedOverall == 600
LongLivedConnect == 5
DefaultConcurrentLimit == 1000
SingleConnectionLimit == 1

\* A timeout is <<overall, connect>>; None is the empty tuple.
NoTimeout == << >>
_DEFAULT_TIMEOUT == <<DefaultOverall, DefaultConnect>>
LongLivedTimeout == <<LongLivedOverall, LongLivedConnect>>

\* httpx turns a bare number into a Timeout with every phase set to it.
AsTimeout(v) == <<v, v>>

\* ------------------------------------------------------------- inputs
\* params of a cache lookup: None, or a dict given as its items in
\* iteration order.
NoParams == [given |-> FALSE, items |-> << >>]
Dict(items) == [given |-> TRUE, items |-> items]
Item(n, v) == [name |-> n, value |-> v]

Configs ==
    { NoParams,
      Dict(<< >>),
      Dict(<<Item("timeout", 10), Item("concurrent_limit", 5)>>),
      Dict(<<Item("concurrent_limit", 5), Item("timeout", 10)>>) }

Kinds == {"async", "sync"}

\* What the transport yields for one send.
Statuses == {200, 404, 500}
NoOutcome == [type |-> "none", status |-> 0, via |-> "none"]
Response(s, v) == [type |-> "response", status |-> s, via |-> v]
TransportError(e, v) == [type |-> e, status |-> 0, via |-> v]
HTTPStatusError(r) == [type |-> "HTTPStatusError", status |-> r.status, via |-> r.via]
ErrorTypes == {"RemoteProtocolError", "TimeoutException"}
Outcomes(v) ==
    {Response(s, v) : s \in Statuses} \cup {TransportError(e, v) : e \in ErrorTypes}

\* response.raise_for_status() raises on a client/server error status.
IsErrorStatus(s) == s >= 400

\* ------------------------------------------------------------- environment
\* os.environ and the litellm globals a construction reads.  A variable is
\* set or not; NO_PROXY is held as its pieces, "," being the separator.
VARIABLE env

Unset == [set |-> FALSE, value |-> ""]
Value(v) == [set |-> TRUE, value |-> v]
UnsetList == [set |-> FALSE, value |-> << >>]
ListValue(pieces) == [set |-> TRUE, value |-> pieces]

NoEnv ==
    [HTTP_PROXY |-> Unset, HTTPS_PROXY |-> Unset, NO_PROXY |-> UnsetList,
     SSL_VERIFY |-> Unset, litellm_ssl_verify |-> TRUE]

Envs ==
    [HTTP_PROXY : {Unset, Value("http://proxy:3128")},
     HTTPS_PROXY : {Unset, Value("http://sproxy:3128")},
     NO_PROXY : {UnsetList, ListValue(<< >>), ListValue(<<"localhost">>),
                 ListValue(<<"localhost", ",", "http://">>)},
     SSL_VERIFY : {Unset, Value(""), Value("0"), Value("False"),
                   Value("True")},
     litellm_ssl_verify : BOOLEAN]

\* str.split(","): the texts between the separators; one more than there
\* are separators, so the empty string gives one empty entry.
RECURSIVE Split(_)
Split(pieces) ==
    IF pieces = << >> THEN <<"">>
    ELSE LET rest == Split(Tail(pieces))
         IN IF Head(pieces) = "," THEN <<"">> \o rest
            ELSE <<Head(pieces) \o rest[1]>> \o Tail(rest)

\* bool(s) of a string: true unless it is empty.
PyBool(s) == s # ""

\* bool(os.getenv("SSL_VERIFY", litellm.ssl_verify)).
ssl_verify(e) ==
    IF e.SSL_VERIFY.set THEN PyBool(e.SSL_VERIFY.value)
    ELSE e.litellm_ssl_verify

\* A routing decision: through a proxy, or None (connect directly).
Via(url) == [direct |-> FALSE, proxy |-> url]
Direct == [direct |-> TRUE, proxy |-> ""]
NoMounts == [installed |-> FALSE, table |-> [k \in {} |-> Direct]]

\* mounts[k] = v.
Assign(table, k, v) ==
    [x \in DOMAIN table \cup {k} |-> IF x = k THEN v ELSE table[x]]

\* for url in no_proxy_urls: mounts[url] = None.
RECURSIVE SetDirect(_, _)
SetDirect(table, urls) ==
    IF urls = << >> THEN table
    ELSE SetDirect(Assign(table, Head(urls), Direct), Tail(urls))

SchemeMounts(e) ==
    ("http://" :> Via(e.HTTP_PROXY.value))
        @@ ("https://" :> Via(e.HTTPS_PROXY.value))

\* Variant of async_proxy_mounts that installs the routing when either proxy is set.
mounts_when_either_proxy_set(e) ==
    IF e.HTTP_PROXY.set \/ e.HTTPS_PROXY.set
    THEN [installed |-> TRUE,
          table |-> IF e.NO_PROXY.set
                    THEN SetDirect(SchemeMounts(e), Split(e.NO_PROXY.value))
                    ELSE SchemeMounts(e)]
    ELSE NoMounts

\* The routing table AsyncHTTPHandler.create_client builds.
async_proxy_mounts(e) ==
    IF e.HTTP_PROXY.set /\ e.HTTPS_PROXY.set
    THEN [installed |-> TRUE,
          table |-> IF e.NO_PROXY.set
                    THEN SetDirect(SchemeMounts(e), Split(e.NO_PROXY.value))
                    ELSE SchemeMounts(e)]
    ELSE NoMounts

\* Variant of sync_proxy_mounts that writes the scheme entries last.
mounts_with_schemes_last(e) ==
    IF e.HTTP_PROXY.set /\ e.HTTPS_PROXY.set
    THEN [installed |-> TRUE,
          table |-> IF e.NO_PROXY.set
                    THEN Assign(Assign(SetDirect([k \in {} |-> Direct],
                                                 Split(e.NO_PROXY.value)),
                                       "http://", Via(e.HTTP_PROXY.value)),
                                "https://", Via(e.HTTPS_PROXY.value))
                    ELSE SchemeMounts(e)]
    ELSE NoMounts

\* The routing table HTTPHandler.__init__ builds.
sync_proxy_mounts(e) ==
    IF e.HTTP_PROXY.set /\ e.HTTPS_PROXY.set
    THEN [installed |-> TRUE,
          table |-> IF e.NO_PROXY.set
                    THEN SetDirect(SchemeMounts(e), Split(e.NO_PROXY.value))
                    ELSE SchemeMounts(e)]
    ELSE NoMounts

\* ------------------------------------------------------------- clients
\* An httpx client: its timeout, its pool limit, its TLS flag, its routing
\* table, and whether it is closed.  limit 0 stands for "no client".
NoClient ==
    [timeout |-> NoTimeout, limit |-> 0, closed |-> FALSE,
     verify |-> FALSE, mounts |-> NoMounts]

\* AsyncHTTPHandler.create_client: the default timeout stands in for None.
create_client(timeout, concurrent_limit) ==
    [timeout |-> IF timeout = NoTimeout THEN _DEFAULT_TIMEOUT ELSE timeout,
     limit   |-> concurrent_limit,
     closed  |-> FALSE,
     verify  |-> ssl_verify(env),
     mounts  |-> async_proxy_mounts(env)]

\* AsyncHTTPHandler.__init__: keeps the timeout as given and builds the pool.
\* madeFor is history: the cache key the handler was constructed for.
AsyncHTTPHandler(timeout, concurrent_limit, k) ==
    [kind    |-> "async",
     timeout |-> timeout,
     client  |-> create_client(timeout, concurrent_limit),
     madeFor |-> k]

\* HTTPHandler.__init__: no timeout attribute is kept; None becomes the
\* default before the pool is built.
HTTPHandler(timeout, concurrent_limit, k) ==
    [kind    |-> "sync",
     timeout |-> NoTimeout,
     client  |-> [timeout |-> IF timeout = NoTimeout THEN _DEFAULT_TIMEOUT
                                                     ELSE timeout,
                  limit   |-> concurrent_limit,
                  closed  |-> FALSE,
                  verify  |-> ssl_verify(env),
                  mounts  |-> sync_proxy_mounts(env)],
     madeFor |-> k]

\* Variant of lines 237-243 that visits the fields in a fixed order.
params_key_name_fixed_order(items) ==
    (IF \E i \in 1..Len(items) : items[i].name = "concurrent_limit"
     THEN "concurrent_limit_" \o ToString(
              items[CHOOSE i \in 1..Len(items) :
                        items[i].name = "concurrent_limit"].value)
     ELSE "")
    \o (IF \E i \in 1..Len(items) : items[i].name = "timeout"
        THEN "timeout_" \o ToString(
                 items[CHOOSE i \in 1..Len(items) :
                           items[i].name = "timeout"].value)
        ELSE "")

\* ------------------------------------------------------------- cache keys
\* for key, value in params.items(): _params_key_name += f"{key}_{value}"
RECURSIVE ParamsKeyName(_)
ParamsKeyName(items) ==
    IF items = << >> THEN ""
    ELSE LET n == Len(items)
         IN ParamsKeyName(SubSeq(items, 1, n - 1))
              \o items[n].name \o "_" \o ToString(items[n].value)

\* Variant of line 245 with the prefix of the synchronous lookup.
async_key_with_sync_prefix(p) ==
    "httpx_client" \o (IF p.given THEN ParamsKeyName(p.items) ELSE "")

AsyncCacheKeyName(p) ==
    "async_httpx_client" \o (IF p.given THEN ParamsKeyName(p.items) ELSE "")

SyncCacheKeyName(p) ==
    "httpx_client" \o (IF p.given THEN ParamsKeyName(p.items) ELSE "")

\* **params: the keyword's value when the dict has it, else the default.
HasParam(items, n) == \E i \in 1..Len(items) : items[i].name = n
ParamValue(items, n) ==
    items[CHOOSE i \in 1..Len(items) : items[i].name = n].value
TimeoutParam(items) ==
    IF HasParam(items, "timeout") THEN AsTimeout(ParamValue(items, "timeout"))
    ELSE NoTimeout
LimitParam(items) ==
    IF HasParam(items, "concurrent_limit")
    THEN ParamValue(items, "concurrent_limit")
    ELSE DefaultConcurrentLimit

\* ------------------------------------------------------------- state
VARIABLES
    cache,      \* litellm.in_memory_llm_clients_cache: key -> handler id
    handlers,   \* the handler objects constructed so far, by id
    returned,   \* history: <<key, id>> for every lookup that has returned
    pc,         \* per caller: position in the call it executes
    op,         \* per caller: the function or method it executes
    held,       \* per caller: the handler its last lookup returned (0: none)
    params,     \* per caller: params of the lookup in progress
    key,        \* per caller: _cache_key_name of the lookup in progress
    newClient,  \* per caller: _new_client of the lookup in progress
    sends,      \* per caller: requests sent by the call in progress
    attempt,    \* per caller: what the send on the pooled client yielded
    retry,      \* per caller: what the send on the fallback client yielded
    fallback,   \* per caller: new_client of the post in progress
    fallbacks,  \* per caller: fallback clients the call has constructed
    pending,    \* per caller: the exception or value on its way out
    result      \* per caller: what the finished call returned or raised

vars == <<env, cache, handlers, returned, pc, op, held, params, key, newClient,
          sends, attempt, retry, fallback, fallbacks, pending, result>>

lookupVars == <<params, key, newClient>>
requestVars == <<sends, attempt, retry, fallback, fallbacks, pending, result>>

NoResult == [how |-> "none", what |-> NoOutcome]
Returns(o) == [how |-> "return", what |-> o]
Raises(o) == [how |-> "raise", what |-> o]

\* The program before any call, apart from its environment.
InitProgram ==
    /\ cache = [k \in {} |-> 0]
    /\ handlers = << >>
    /\ returned = {}
    /\ pc = [t \in Threads |-> "idle"]
    /\ op = [t \in Threads |-> "none"]
    /\ held = [t \in Threads |-> 0]
    /\ params = [t \in Threads |-> NoParams]
    /\ key = [t \in Threads |-> ""]
    /\ newClient = [t \in Threads |-> 0]
    /\ sends = [t \in Threads |-> 0]
    /\ attempt = [t \in Threads |-> NoOutcome]
    /\ retry = [t \in Threads |-> NoOutcome]
    /\ fallback = [t \in Threads |-> NoClient]
    /\ fallbacks = [t \in Threads |-> 0]
    /\ pending = [t \in Threads |-> NoResult]
    /\ result = [t \in Threads |-> NoResult]

\* No proxy or TLS setting in the environment.
Init == env = NoEnv /\ InitProgram

\* Any of the environments.
EnvInit == env \in Envs /\ InitProgram

Goto(t, label) == pc' = [pc EXCEPT ![t] = label]

\* Caller t enters function or method f.
Enter(t, f) == pc[t] = "idle" /\ op' = [op EXCEPT ![t] = f]

\* The lookup returns handler h for key k to caller t.
ReturnClient(t, p, k, h) ==
    /\ held' = [held EXCEPT ![t] = h]
    /\ returned' = returned \cup {[of |-> op'[t], params |-> p, key |-> k, id |-> h]}
    /\ Goto(t, "Done")

\* ------------------------------------------------------------- the cache
\* _get_async_httpx_client, lines 237-247: derive the key; on a hit return
\* the cached instance.
_get_async_httpx_client_check(t, p) ==
    /\ UNCHANGED env
    /\ Enter(t, "_get_async_httpx_client")
    /\ LET k == AsyncCacheKeyName(p)
       IN IF k \in DOMAIN cache
          THEN /\ key' = [key EXCEPT ![t] = k]
               /\ ReturnClient(t, p, k, cache[k])
               /\ UNCHANGED <<cache, handlers, params, newClient,
                              requestVars>>
          ELSE /\ Len(handlers) < MaxHandlers
               /\ params' = [params EXCEPT ![t] = p]
               /\ key' = [key EXCEPT ![t] = k]
               /\ Goto(t, "async_construct")
               /\ UNCHANGED <<cache, handlers, returned, held, newClient,
                              requestVars>>

\* lines 249-254: the miss constructs a handler.
_get_async_httpx_client_construct(t) ==
    /\ UNCHANGED env
    /\ UNCHANGED op
    /\ pc[t] = "async_construct"
    /\ Len(handlers) < MaxHandlers
    /\ handlers' = Append(handlers,
          IF params[t].given
          THEN AsyncHTTPHandler(TimeoutParam(params[t].items),
                                LimitParam(params[t].items), key[t])
          ELSE AsyncHTTPHandler(LongLivedTimeout, DefaultConcurrentLimit,
                                key[t]))
    /\ newClient' = [newClient EXCEPT ![t] = Len(handlers) + 1]
    /\ Goto(t, "async_store")
    /\ UNCHANGED <<cache, returned, held, params, key, requestVars>>

\* Variant of lines 255-256 that returns the new client without storing it.
return_without_storing(t) ==
    /\ UNCHANGED env
    /\ UNCHANGED op
    /\ pc[t] = "async_store"
    /\ ReturnClient(t, params[t], key[t], newClient[t])
    /\ UNCHANGED <<cache, handlers, lookupVars, requestVars>>

\* lines 255-256: store it under the key and return it.
_get_async_httpx_client_store(t) ==
    /\ UNCHANGED env
    /\ UNCHANGED op
    /\ pc[t] = "async_store"
    /\ cache' = [k \in DOMAIN cache \cup {key[t]} |->
                    IF k = key[t] THEN newClient[t] ELSE cache[k]]
    /\ ReturnClient(t, params[t], key[t], newClient[t])
    /\ UNCHANGED <<handlers, lookupVars, requestVars>>

\* _get_httpx_client, lines 266-276.
_get_httpx_client_check(t, p) ==
    /\ UNCHANGED env
    /\ Enter(t, "_get_httpx_client")
    /\ LET k == SyncCacheKeyName(p)
       IN IF k \in DOMAIN cache
          THEN /\ key' = [key EXCEPT ![t] = k]
               /\ ReturnClient(t, p, k, cache[k])
               /\ UNCHANGED <<cache, handlers, params, newClient,
                              requestVars>>
          ELSE /\ Len(handlers) < MaxHandlers
               /\ params' = [params EXCEPT ![t] = p]
               /\ key' = [key EXCEPT ![t] = k]
               /\ Goto(t, "sync_construct")
               /\ UNCHANGED <<cache, handlers, returned, held, newClient,
                              requestVars>>

\* lines 278-281.
_get_httpx_client_construct(t) ==
    /\ UNCHANGED env
    /\ UNCHANGED op
    /\ pc[t] = "sync_construct"
    /\ Len(handlers) < MaxHandlers
    /\ handlers' = Append(handlers,
          IF params[t].given
          THEN HTTPHandler(TimeoutParam(params[t].items),
                           LimitParam(params[t].items), key[t])
          ELSE HTTPHandler(LongLivedTimeout, DefaultConcurrentLimit, key[t]))
    /\ newClient' = [newClient EXCEPT ![t] = Len(handlers) + 1]
    /\ Goto(t, "sync_store")
    /\ UNCHANGED <<cache, returned, held, params, key, requestVars>>

\* lines 283-284.
_get_httpx_client_store(t) ==
    /\ UNCHANGED env
    /\ UNCHANGED op
    /\ pc[t] = "sync_store"
    /\ cache' = [k \in DOMAIN cache \cup {key[t]} |->
                    IF k = key[t] THEN newClient[t] ELSE cache[k]]
    /\ ReturnClient(t, params[t], key[t], newClient[t])
    /\ UNCHANGED <<handlers, lookupVars, requestVars>>

\* ------------------------------------------------------------- requests
Self(t) == handlers[held[t]]
Holds(t, kind) == held[t] # 0 /\ Self(t).kind = kind

\* httpx refuses to send on a closed client.
ClosedError(v) == TransportError("RuntimeError", v)

\* AsyncHTTPHandler.post, lines 94-98: build the request and send it on the
\* pooled client.
Async_post_send(t) ==
    /\ UNCHANGED env
    /\ Enter(t, "AsyncHTTPHandler.post")
    /\ Holds(t, "async")
    /\ IF Self(t).client.closed
       THEN /\ pending' = [pending EXCEPT ![t] = Raises(ClosedError("pool"))]
            /\ Goto(t, "post_except")
            /\ UNCHANGED sends
       ELSE /\ sends' = [sends EXCEPT ![t] = @ + 1]
            /\ Goto(t, "post_await")
            /\ UNCHANGED pending
    /\ UNCHANGED <<cache, handlers, returned, held, lookupVars, attempt,
                   retry, fallback, fallbacks, result>>

\* Variant of lines 101-119 whose first clause catches every transport error.
recv_any_error_to_fallback(t, o) ==
    /\ UNCHANGED env
    /\ UNCHANGED op
    /\ pc[t] = "post_await"
    /\ attempt' = [attempt EXCEPT ![t] = o]
    /\ IF o.type = "response"
       THEN Goto(t, "post_status")
       ELSE Goto(t, "post_fallback")
    /\ UNCHANGED <<cache, handlers, returned, held, lookupVars, sends,
                   retry, fallback, fallbacks, pending, result>>

\* line 98 resumes: a response, or the exception the send raised, which
\* selects the except clause.
Async_post_recv(t, o) ==
    /\ UNCHANGED env
    /\ UNCHANGED op
    /\ pc[t] = "post_await"
    /\ attempt' = [attempt EXCEPT ![t] = o]
    /\ IF o.type = "response"
       THEN Goto(t, "post_status") /\ UNCHANGED pending
       ELSE IF o.type = "RemoteProtocolError"
       THEN Goto(t, "post_fallback") /\ UNCHANGED pending
       ELSE /\ pending' = [pending EXCEPT ![t] = Raises(o)]
            /\ Goto(t, "post_except")
    /\ UNCHANGED <<cache, handlers, returned, held, lookupVars, sends,
                   retry, fallback, fallbacks, result>>

\* Variant of lines 99-100 without the status check.
post_returns_unchecked(t) ==
    /\ UNCHANGED env
    /\ UNCHANGED op
    /\ pc[t] = "post_status"
    /\ result' = [result EXCEPT ![t] = Returns(attempt[t])]
    /\ Goto(t, "Done")
    /\ UNCHANGED <<cache, handlers, returned, held, lookupVars, sends,
                   attempt, retry, fallback, fallbacks, pending>>

\* lines 99-100: raise_for_status, then return the response.
Async_post_raise_for_status(t) ==
    /\ UNCHANGED env
    /\ UNCHANGED op
    /\ pc[t] = "post_status"
    /\ IF IsErrorStatus(attempt[t].status)
       THEN /\ pending' = [pending EXCEPT
                              ![t] = Raises(HTTPStatusError(attempt[t]))]
            /\ Goto(t, "post_except")
            /\ UNCHANGED result
       ELSE /\ result' = [result EXCEPT ![t] = Returns(attempt[t])]
            /\ Goto(t, "Done")
            /\ UNCHANGED pending
    /\ UNCHANGED <<cache, handlers, returned, held, lookupVars, sends,
                   attempt, retry, fallback, fallbacks>>

\* lines 116-119: raise e.
Async_post_except(t) ==
    /\ UNCHANGED env
    /\ UNCHANGED op
    /\ pc[t] = "post_except"
    /\ result' = [result EXCEPT ![t] = pending[t]]
    /\ Goto(t, "Failed")
    /\ UNCHANGED <<cache, handlers, returned, held, lookupVars, sends,
                   attempt, retry, fallback, fallbacks, pending>>

\* Variant of lines 101-103 that keeps the new client as the handler's own.
fallback_replaces_pool(t) ==
    /\ UNCHANGED env
    /\ UNCHANGED op
    /\ pc[t] = "post_fallback"
    /\ fallback' = [fallback EXCEPT
                       ![t] = create_client(Self(t).timeout,
                                            SingleConnectionLimit)]
    /\ handlers' = [handlers EXCEPT
                       ![held[t]].client =
                           create_client(Self(t).timeout,
                                         SingleConnectionLimit)]
    /\ fallbacks' = [fallbacks EXCEPT ![t] = @ + 1]
    /\ Goto(t, "single_send")
    /\ UNCHANGED <<cache, returned, held, lookupVars, sends,
                   attempt, retry, pending, result>>

\* lines 101-103: on RemoteProtocolError build the single-connection client.
Async_post_fallback(t) ==
    /\ UNCHANGED env
    /\ UNCHANGED op
    /\ pc[t] = "post_fallback"
    /\ fallback' = [fallback EXCEPT
                       ![t] = create_client(Self(t).timeout,
                                            SingleConnectionLimit)]
    /\ fallbacks' = [fallbacks EXCEPT ![t] = @ + 1]
    /\ Goto(t, "single_send")
    /\ UNCHANGED <<cache, handlers, returned, held, lookupVars, sends,
                   attempt, retry, pending, result>>

\* single_connection_post_request, lines 136-139: send on the new client.
single_connection_post_request_send(t) ==
    /\ UNCHANGED env
    /\ UNCHANGED op
    /\ pc[t] = "single_send"
    /\ sends' = [sends EXCEPT ![t] = @ + 1]
    /\ Goto(t, "single_await")
    /\ UNCHANGED <<cache, handlers, returned, held, lookupVars, attempt,
                   retry, fallback, fallbacks, pending, result>>

\* Variant of line 139 that retries again on a second protocol error.
recv_retrying_again(t, o) ==
    /\ UNCHANGED env
    /\ UNCHANGED op
    /\ pc[t] = "single_await"
    /\ retry' = [retry EXCEPT ![t] = o]
    /\ IF o.type = "response"
       THEN Goto(t, "single_status") /\ UNCHANGED pending
       ELSE IF o.type = "RemoteProtocolError"
       THEN Goto(t, "post_fallback") /\ UNCHANGED pending
       ELSE /\ pending' = [pending EXCEPT ![t] = Raises(o)]
            /\ Goto(t, "post_finally")
    /\ UNCHANGED <<cache, handlers, returned, held, lookupVars, sends,
                   attempt, fallback, fallbacks, result>>

\* line 139 resumes; an exception leaves through the finally of post.
single_connection_post_request_recv(t, o) ==
    /\ UNCHANGED env
    /\ UNCHANGED op
    /\ pc[t] = "single_await"
    /\ retry' = [retry EXCEPT ![t] = o]
    /\ IF o.type = "response"
       THEN Goto(t, "single_status") /\ UNCHANGED pending
       ELSE /\ pending' = [pending EXCEPT ![t] = Raises(o)]
            /\ Goto(t, "post_finally")
    /\ UNCHANGED <<cache, handlers, returned, held, lookupVars, sends,
                   attempt, fallback, fallbacks, result>>

\* Variant of lines 140-141 that drops the return value.
raise_for_status_without_return(t) ==
    /\ UNCHANGED env
    /\ UNCHANGED op
    /\ pc[t] = "single_status"
    /\ pending' = [pending EXCEPT
                      ![t] = IF IsErrorStatus(retry[t].status)
                             THEN Raises(HTTPStatusError(retry[t]))
                             ELSE Returns(NoOutcome)]
    /\ Goto(t, "post_finally")
    /\ UNCHANGED <<cache, handlers, returned, held, lookupVars, sends,
                   attempt, retry, fallback, fallbacks, result>>

\* lines 140-141.
single_connection_post_request_raise_for_status(t) ==
    /\ UNCHANGED env
    /\ UNCHANGED op
    /\ pc[t] = "single_status"
    /\ pending' = [pending EXCEPT
                      ![t] = IF IsErrorStatus(retry[t].status)
                             THEN Raises(HTTPStatusError(retry[t]))
                             ELSE Returns(retry[t])]
    /\ Goto(t, "post_finally")
    /\ UNCHANGED <<cache, handlers, returned, held, lookupVars, sends,
                   attempt, retry, fallback, fallbacks, result>>

\* Variant of lines 114-115 that closes the new client on success only.
close_after_success_only(t) ==
    /\ UNCHANGED env
    /\ UNCHANGED op
    /\ pc[t] = "post_finally"
    /\ fallback' = [fallback EXCEPT
                       ![t].closed = (pending[t].how = "return")]
    /\ result' = [result EXCEPT ![t] = pending[t]]
    /\ Goto(t, IF pending[t].how = "return" THEN "Done" ELSE "Failed")
    /\ UNCHANGED <<cache, handlers, returned, held, lookupVars, sends,
                   attempt, retry, fallbacks, pending>>

\* lines 114-115: close the new client, then let the value or exception out.
Async_post_finally(t) ==
    /\ UNCHANGED env
    /\ UNCHANGED op
    /\ pc[t] = "post_finally"
    /\ fallback' = [fallback EXCEPT ![t].closed = TRUE]
    /\ result' = [result EXCEPT ![t] = pending[t]]
    /\ Goto(t, IF pending[t].how = "return" THEN "Done" ELSE "Failed")
    /\ UNCHANGED <<cache, handlers, returned, held, lookupVars, sends,
                   attempt, retry, fallbacks, pending>>

\* HTTPHandler.post, lines 217-220: build the request and send it.
Sync_post_send(t) ==
    /\ UNCHANGED env
    /\ Enter(t, "HTTPHandler.post")
    /\ Holds(t, "sync")
    /\ IF Self(t).client.closed
       THEN /\ result' = [result EXCEPT ![t] = Raises(ClosedError("pool"))]
            /\ Goto(t, "Failed")
            /\ UNCHANGED sends
       ELSE /\ sends' = [sends EXCEPT ![t] = @ + 1]
            /\ Goto(t, "sync_post_await")
            /\ UNCHANGED result
    /\ UNCHANGED <<cache, handlers, returned, held, lookupVars, attempt,
                   retry, fallback, fallbacks, pending>>

\* Variant of lines 220-221 that checks the status like the async post.
sync_recv_with_status_check(t, o) ==
    /\ UNCHANGED env
    /\ UNCHANGED op
    /\ pc[t] = "sync_post_await"
    /\ attempt' = [attempt EXCEPT ![t] = o]
    /\ result' = [result EXCEPT
                     ![t] = IF o.type # "response" THEN Raises(o)
                            ELSE IF IsErrorStatus(o.status)
                            THEN Raises(HTTPStatusError(o))
                            ELSE Returns(o)]
    /\ Goto(t, IF o.type = "response" /\ ~IsErrorStatus(o.status)
               THEN "Done" ELSE "Failed")
    /\ UNCHANGED <<cache, handlers, returned, held, lookupVars, sends,
                   retry, fallback, fallbacks, pending>>

\* Variant of lines 220-221 that retries on a single connection like the
\* async post.
sync_recv_with_retry(t, o) ==
    /\ UNCHANGED env
    /\ UNCHANGED op
    /\ pc[t] = "sync_post_await"
    /\ attempt' = [attempt EXCEPT ![t] = o]
    /\ IF o.type = "RemoteProtocolError"
       THEN Goto(t, "post_fallback") /\ UNCHANGED result
       ELSE /\ result' = [result EXCEPT
                             ![t] = IF o.type = "response" THEN Returns(o)
                                                           ELSE Raises(o)]
            /\ Goto(t, IF o.type = "response" THEN "Done" ELSE "Failed")
    /\ UNCHANGED <<cache, handlers, returned, held, lookupVars, sends,
                   retry, fallback, fallbacks, pending>>

\* lines 220-221: the response is returned as it is; an exception of the
\* send propagates.
Sync_post_recv(t, o) ==
    /\ UNCHANGED env
    /\ UNCHANGED op
    /\ pc[t] = "sync_post_await"
    /\ attempt' = [attempt EXCEPT ![t] = o]
    /\ result' = [result EXCEPT
                     ![t] = IF o.type = "response" THEN Returns(o)
                                                   ELSE Raises(o)]
    /\ Goto(t, IF o.type = "response" THEN "Done" ELSE "Failed")
    /\ UNCHANGED <<cache, handlers, returned, held, lookupVars, sends,
                   retry, fallback, fallbacks, pending>>

\* AsyncHTTPHandler.get, line 82.
Async_get_send(t) ==
    /\ UNCHANGED env
    /\ Enter(t, "AsyncHTTPHandler.get")
    /\ Holds(t, "async")
    /\ IF Self(t).client.closed
       THEN /\ result' = [result EXCEPT ![t] = Raises(ClosedError("pool"))]
            /\ Goto(t, "Failed")
            /\ UNCHANGED sends
       ELSE /\ sends' = [sends EXCEPT ![t] = @ + 1]
            /\ Goto(t, "get_await")
            /\ UNCHANGED result
    /\ UNCHANGED <<cache, handlers, returned, held, lookupVars, attempt,
                   retry, fallback, fallbacks, pending>>

\* lines 82-83.
Async_get_recv(t, o) ==
    /\ UNCHANGED env
    /\ UNCHANGED op
    /\ pc[t] = "get_await"
    /\ attempt' = [attempt EXCEPT ![t] = o]
    /\ result' = [result EXCEPT
                     ![t] = IF o.type = "response" THEN Returns(o)
                                                   ELSE Raises(o)]
    /\ Goto(t, IF o.type = "response" THEN "Done" ELSE "Failed")
    /\ UNCHANGED <<cache, handlers, returned, held, lookupVars, sends,
                   retry, fallback, fallbacks, pending>>

\* HTTPHandler.get, line 204.
Sync_get_send(t) ==
    /\ UNCHANGED env
    /\ Enter(t, "HTTPHandler.get")
    /\ Holds(t, "sync")
    /\ IF Self(t).client.closed
       THEN /\ result' = [result EXCEPT ![t] = Raises(ClosedError("pool"))]
            /\ Goto(t, "Failed")
            /\ UNCHANGED sends
       ELSE /\ sends' = [sends EXCEPT ![t] = @ + 1]
            /\ Goto(t, "sync_get_await")
            /\ UNCHANGED result
    /\ UNCHANGED <<cache, handlers, returned, held, lookupVars, attempt,
                   retry, fallback, fallbacks, pending>>

\* lines 204-205.
Sync_get_recv(t, o) ==
    /\ UNCHANGED env
    /\ UNCHANGED op
    /\ pc[t] = "sync_get_await"
    /\ attempt' = [attempt EXCEPT ![t] = o]
    /\ result' = [result EXCEPT
                     ![t] = IF o.type = "response" THEN Returns(o)
                                                   ELSE Raises(o)]
    /\ Goto(t, IF o.type = "response" THEN "Done" ELSE "Failed")
    /\ UNCHANGED <<cache, handlers, returned, held, lookupVars, sends,
                   retry, fallback, fallbacks, pending>>

\* Variant of lines 68-70 that also drops the closed handler from the cache.
close_and_evict(t) ==
    /\ UNCHANGED env
    /\ pc[t] = "idle"
    /\ Holds(t, "async")
    /\ handlers' = [handlers EXCEPT ![held[t]].client.closed = TRUE]
    /\ cache' = [k \in {j \in DOMAIN cache : cache[j] # held[t]} |-> cache[k]]
    /\ UNCHANGED <<returned, pc, op, held, lookupVars, requestVars>>

\* AsyncHTTPHandler.close, lines 68-70.
Async_close(t) ==
    /\ UNCHANGED env
    /\ pc[t] = "idle"
    /\ Holds(t, "async")
    /\ handlers' = [handlers EXCEPT ![held[t]].client.closed = TRUE]
    /\ UNCHANGED <<cache, returned, pc, op, held, lookupVars, requestVars>>

\* Variant of lines 197-199 that also drops the closed handler from the cache.
sync_close_and_evict(t) ==
    /\ UNCHANGED env
    /\ pc[t] = "idle"
    /\ Holds(t, "sync")
    /\ handlers' = [handlers EXCEPT ![held[t]].client.closed = TRUE]
    /\ cache' = [k \in {j \in DOMAIN cache : cache[j] # held[t]} |-> cache[k]]
    /\ UNCHANGED <<returned, pc, op, held, lookupVars, requestVars>>

\* HTTPHandler.close, lines 197-199.
Sync_close(t) ==
    /\ UNCHANGED env
    /\ pc[t] = "idle"
    /\ Holds(t, "sync")
    /\ handlers' = [handlers EXCEPT ![held[t]].client.closed = TRUE]
    /\ UNCHANGED <<cache, returned, pc, op, held, lookupVars, requestVars>>

\* The finished call's frame is dropped and the caller goes on.
Finish(t) ==
    /\ UNCHANGED env
    /\ pc[t] \in {"Done", "Failed"}
    /\ Goto(t, "idle")
    /\ op' = [op EXCEPT ![t] = "none"]
    /\ fallbacks' = [fallbacks EXCEPT ![t] = 0]
    /\ params' = [params EXCEPT ![t] = NoParams]
    /\ key' = [key EXCEPT ![t] = ""]
    /\ newClient' = [newClient EXCEPT ![t] = 0]
    /\ sends' = [sends EXCEPT ![t] = 0]
    /\ attempt' = [attempt EXCEPT ![t] = NoOutcome]
    /\ retry' = [retry EXCEPT ![t] = NoOutcome]
    /\ fallback' = [fallback EXCEPT ![t] = NoClient]
    /\ pending' = [pending EXCEPT ![t] = NoResult]
    /\ result' = [result EXCEPT ![t] = NoResult]
    /\ UNCHANGED <<cache, handlers, returned, held>>

\* ------------------------------------------------------------- behaviours
\* One step of caller t.
Step(t) ==
    \/ \E p \in Configs : _get_async_httpx_client_check(t, p)
    \/ _get_async_httpx_client_construct(t)
    \/ _get_async_httpx_client_store(t)
    \/ \E p \in Configs : _get_httpx_client_check(t, p)
    \/ _get_httpx_client_construct(t)
    \/ _get_httpx_client_store(t)
    \/ Async_post_send(t)
    \/ \E o \in Outcomes("pool") : Async_post_recv(t, o)
    \/ Async_post_raise_for_status(t)
    \/ Async_post_except(t)
    \/ Async_post_fallback(t)
    \/ single_connection_post_request_send(t)
    \/ \E o \in Outcomes("fallback") :
          single_connection_post_request_recv(t, o)
    \/ single_connection_post_request_raise_for_status(t)
    \/ Async_post_finally(t)
    \/ Sync_post_send(t)
    \/ \E o \in Outcomes("pool") : Sync_post_recv(t, o)
    \/ Async_get_send(t)
    \/ \E o \in Outcomes("pool") : Async_get_recv(t, o)
    \/ Sync_get_send(t)
    \/ \E o \in Outcomes("pool") : Sync_get_recv(t, o)
    \/ Async_close(t)
    \/ Sync_close(t)
    \/ Finish(t)

\* Sequential use: a single caller, one call after the other.
OneCaller == {CHOOSE t \in Threads : TRUE}

SeqNext == \E t \in OneCaller : Step(t)

\* Callers on several threads: their calls interleave at every step.
Next == \E t \in Threads : Step(t)

Spec == Init /\ [][SeqNext]_vars

ConcSpec == Init /\ [][Next]_vars

\* Lookups by one caller under any of the environments.
EnvNext ==
    \E t \in OneCaller :
        \/ \E p \in Configs : _get_async_httpx_client_check(t, p)
        \/ _get_async_httpx_client_construct(t)
        \/ _get_async_httpx_client_store(t)
        \/ \E p \in Configs : _get_httpx_client_check(t, p)
        \/ _get_httpx_client_construct(t)
        \/ _get_httpx_client_store(t)
        \/ Finish(t)

EnvSpec == EnvInit /\ [][EnvNext]_vars

\* ------------------------------------------------------------- properties
Terminal(t) == pc[t] \in {"Done", "Failed"}
InAsyncPost(t) == op[t] = "AsyncHTTPHandler.post"
InSyncPost(t) == op[t] = "HTTPHandler.post"
FallbackSection == {"single_send", "single_await", "single_status",
                    "post_finally"}

\* C1: an asynchronous post whose send on the pooled client raised
\* RemoteProtocolError and whose send on the fallback client yielded a
\* response with a non-error status ends in Done, returns that very
\* response, and its fallback client is closed when it returns.
C1_FallbackResponseReturned ==
    \A t \in Threads :
        ( /\ InAsyncPost(t)
          /\ attempt[t].type = "RemoteProtocolError"
          /\ retry[t].type = "response"
          /\ ~IsErrorStatus(retry[t].status) )
        => /\ pc[t] \in {"single_status", "post_finally", "Done"}
           /\ pc[t] = "Done" =>
                 /\ result[t] = Returns(retry[t])
                 /\ retry[t].via = "fallback"
                 /\ fallback[t] # NoClient
                 /\ fallback[t].closed

C1_Witness ==
    \E t \in Threads :
        /\ InAsyncPost(t) /\ pc[t] = "Done"
        /\ attempt[t].type = "RemoteProtocolError"
        /\ retry[t] = Response(200, "fallback")
        /\ result[t] = Returns(retry[t])
        /\ fallback[t].closed

\* C2: every fallback client a post has constructed is closed when the
\* post returns or raises, whatever the retry yielded; an open fallback
\* client exists only between its construction and the finally clause.
C2_FallbackAlwaysClosed ==
    \A t \in Threads :
        /\ (Terminal(t) /\ fallbacks[t] > 0) =>
               (fallback[t] # NoClient /\ fallback[t].closed)
        /\ (fallback[t] # NoClient /\ ~fallback[t].closed) =>
               pc[t] \in FallbackSection

C2_Witness ==
    \E t \in Threads :
        /\ InAsyncPost(t) /\ pc[t] = "Failed"
        /\ retry[t].type = "TimeoutException"
        /\ fallbacks[t] = 1 /\ fallback[t].closed

\* C3: one post sends at most twice and constructs at most one fallback
\* client; the second send happens only after a protocol error on the
\* first; an exception of the second send is what the post raises, and no
\* further attempt follows.
C3_AtMostOneFallback ==
    \A t \in Threads :
        /\ sends[t] <= 2
        /\ fallbacks[t] <= 1
        /\ retry[t] # NoOutcome =>
              /\ sends[t] = 2 /\ fallbacks[t] = 1
              /\ attempt[t].type = "RemoteProtocolError"
        /\ retry[t].type \notin {"none", "response"} =>
              /\ pc[t] \in {"post_finally", "Failed"}
              /\ pc[t] = "Failed" => result[t] = Raises(retry[t])

C3_Witness ==
    \E t \in Threads :
        /\ InAsyncPost(t) /\ pc[t] = "Failed"
        /\ attempt[t].type = "RemoteProtocolError"
        /\ retry[t] = TransportError("RemoteProtocolError", "fallback")
        /\ result[t] = Raises(retry[t])
        /\ sends[t] = 2 /\ fallbacks[t] = 1

\* The exception the first attempt of a post ends with.
FirstFailure(t) ==
    IF attempt[t] = NoOutcome THEN ClosedError("pool")
    ELSE IF attempt[t].type = "response" THEN HTTPStatusError(attempt[t])
    ELSE attempt[t]

\* C4: when the first attempt of an asynchronous post fails with anything
\* but RemoteProtocolError (an error status, a timeout, a closed pool),
\* the post fails with that same exception, constructs no fallback client
\* and sends nothing a second time.
C4_OtherFailuresNotRetried ==
    \A t \in Threads :
        ( /\ InAsyncPost(t)
          /\ attempt[t].type # "RemoteProtocolError"
          /\ attempt[t].type = "response" => IsErrorStatus(attempt[t].status)
          /\ attempt[t] = NoOutcome => pc[t] \in {"post_except", "Failed"} )
        => /\ pc[t] \in {"post_status", "post_except", "Failed"}
           /\ fallbacks[t] = 0
           /\ fallback[t] = NoClient
           /\ retry[t] = NoOutcome
           /\ sends[t] = (IF attempt[t] = NoOutcome THEN 0 ELSE 1)
           /\ pc[t] = "Failed" => result[t] = Raises(FirstFailure(t))

C4_Witness ==
    \E t \in Threads :
        /\ InAsyncPost(t) /\ pc[t] = "Failed"
        /\ attempt[t] = TransportError("TimeoutException", "pool")
        /\ result[t] = Raises(attempt[t])
        /\ sends[t] = 1 /\ fallbacks[t] = 0

\* C5: an asynchronous post returns only responses with a non-error
\* status; a response with an error status, on the pooled client or on the
\* fallback client, makes it raise the status error carrying that response.
C5_NoErrorStatusReturned ==
    \A t \in Threads :
        InAsyncPost(t) =>
            /\ result[t].how = "return" =>
                  /\ pc[t] = "Done"
                  /\ result[t].what.type = "response"
                  /\ ~IsErrorStatus(result[t].what.status)
            /\ ( /\ Terminal(t)
                 /\ attempt[t].type = "response"
                 /\ IsErrorStatus(attempt[t].status) ) =>
                  /\ pc[t] = "Failed"
                  /\ result[t] = Raises(HTTPStatusError(attempt[t]))
            /\ ( /\ Terminal(t)
                 /\ retry[t].type = "response"
                 /\ IsErrorStatus(retry[t].status) ) =>
                  /\ pc[t] = "Failed"
                  /\ result[t] = Raises(HTTPStatusError(retry[t]))

C5_Witness ==
    \E t \in Threads :
        /\ InAsyncPost(t) /\ pc[t] = "Failed"
        /\ attempt[t] = Response(500, "pool")
        /\ result[t] = Raises(HTTPStatusError(attempt[t]))

\* C6: a synchronous post returns the response it received whatever its
\* status, error statuses included, and does not raise.
C6_SyncPostReturnsAnyStatus ==
    \A t \in Threads :
        (InSyncPost(t) /\ attempt[t].type = "response")
        => /\ pc[t] = "Done"
           /\ result[t] = Returns(attempt[t])

C6_Witness ==
    \E t \in Threads :
        /\ InSyncPost(t) /\ pc[t] = "Done"
        /\ result[t] = Returns(Response(500, "pool"))

\* C7 as stated: a synchronous post that fails with RemoteProtocolError
\* builds a single-connection client, retries once and closes that client.
C7_SyncRetriesOnProtocolError ==
    \A t \in Threads :
        (InSyncPost(t) /\ Terminal(t)
           /\ attempt[t].type = "RemoteProtocolError")
        => /\ fallbacks[t] = 1
           /\ sends[t] = 2
           /\ fallback[t].closed

\* C7, amended: only the asynchronous post has the single-connection retry.
\* A synchronous post that fails with RemoteProtocolError raises that
\* exception after one send and builds no other client; an asynchronous
\* post in the same case builds one, sends a second time and closes it.
C7_OnlyAsyncRetries ==
    \A t \in Threads :
        /\ (InSyncPost(t) /\ attempt[t].type = "RemoteProtocolError")
           => /\ pc[t] = "Failed"
              /\ result[t] = Raises(attempt[t])
              /\ sends[t] = 1
              /\ fallbacks[t] = 0
              /\ fallback[t] = NoClient
              /\ retry[t] = NoOutcome
        /\ (InAsyncPost(t) /\ Terminal(t)
              /\ attempt[t].type = "RemoteProtocolError")
           => /\ fallbacks[t] = 1
              /\ sends[t] = 2
              /\ fallback[t].closed

C7_Witness ==
    \E t \in Threads :
        /\ InSyncPost(t) /\ pc[t] = "Failed"
        /\ result[t] = Raises(TransportError("RemoteProtocolError", "pool"))
        /\ sends[t] = 1

Lookups == {"_get_async_httpx_client", "_get_httpx_client"}

\* The handlers constructed for cache key k.
MadeFor(k) == {i \in 1..Len(handlers) : handlers[i].madeFor = k}

\* The instances that lookups have handed out for key k or that the cache
\* holds for it.
InUseFor(k) ==
    {r.id : r \in {x \in returned : x.key = k}}
        \cup (IF k \in DOMAIN cache THEN {cache[k]} ELSE {})

\* C8: with lookups made one after the other, all lookups of one kind with
\* the same configuration in the same field order return the same
\* instance, and exactly one handler has been constructed for their key.
C8_SameConfigSameInstance ==
    /\ \A r1, r2 \in returned :
          (r1.of = r2.of /\ r1.params = r2.params) => r1.id = r2.id
    /\ \A r \in returned : Cardinality(MadeFor(r.key)) = 1

C8_Witness ==
    \E t \in Threads :
        /\ pc[t] = "Done" /\ op[t] = "_get_async_httpx_client"
        /\ key[t] = "async_httpx_clienttimeout_10concurrent_limit_5"
        /\ newClient[t] = 0
        /\ held[t] = cache[key[t]]
        /\ Cardinality(MadeFor(key[t])) = 1

\* C9 as stated: when threads race on the first lookup of a key, one
\* client is retained: every caller gets the same instance, one instance
\* is in use for the key, and every caller holds what the cache holds.
C9_OneClientRetained ==
    /\ \A r1, r2 \in returned : r1.key = r2.key => r1.id = r2.id
    /\ \A r \in returned : Cardinality(InUseFor(r.key)) <= 1
    /\ \A r \in returned : cache[r.key] = r.id

\* C10: with calls made one after the other, no step removes a cache entry
\* or binds its key to another instance, and a hit returns the instance the
\* cache holds for the key and constructs nothing.
C10_EntriesPersist ==
    [][ /\ \A k \in DOMAIN cache : k \in DOMAIN cache' /\ cache'[k] = cache[k]
        /\ \A t \in Threads :
              (pc[t] = "idle" /\ pc'[t] = "Done" /\ op'[t] \in Lookups)
              => /\ key'[t] \in DOMAIN cache
                 /\ held'[t] = cache[key'[t]]
                 /\ handlers' = handlers
                 /\ cache' = cache ]_vars

C10_Witness ==
    \E t \in Threads :
        /\ pc[t] = "Done" /\ op[t] = "_get_async_httpx_client"
        /\ newClient[t] = 0
        /\ held[t] = cache[key[t]]
        /\ handlers[held[t]].client.closed

\* C11 as stated: a lookup without params uses a key that no lookup with
\* params uses, the empty dict included, so the two never share a handler.
C11_DefaultKeyDistinct ==
    \A r1, r2 \in returned :
        (~r1.params.given /\ r2.params.given)
        => (r1.key # r2.key /\ r1.id # r2.id)

\* The fields of a dict, whatever their order.
ItemSet(q) == {q.items[i] : i \in 1..Len(q.items)}
Reordered(q1, q2) ==
    /\ q1.given /\ q2.given
    /\ ItemSet(q1) = ItemSet(q2)
    /\ q1.items # q2.items

\* C12: two lookups of one kind whose dicts hold the same fields and values
\* in a different order use different keys, and each gets a handler of
\* its own, constructed for its key.
C12_OrderSensitiveKeys ==
    \A r1, r2 \in returned :
        (r1.of = r2.of /\ Reordered(r1.params, r2.params))
        => /\ r1.key # r2.key
           /\ r1.id # r2.id
           /\ handlers[r1.id].madeFor = r1.key
           /\ handlers[r2.id].madeFor = r2.key

C12_Witness ==
    \E r1, r2 \in returned :
        /\ r1.of = r2.of
        /\ Reordered(r1.params, r2.params)
        /\ r1.id # r2.id

KindOf(f) == IF f = "_get_async_httpx_client" THEN "async" ELSE "sync"

\* C13: the key of a synchronous lookup differs from the key of every
\* asynchronous lookup, and each lookup returns a handler of its own kind.
C13_KindsCachedSeparately ==
    /\ \A q1, q2 \in Configs : SyncCacheKeyName(q1) # AsyncCacheKeyName(q2)
    /\ \A r \in returned : handlers[r.id].kind = KindOf(r.of)
    /\ \A r1, r2 \in returned : r1.of # r2.of => r1.id # r2.id

C13_Witness ==
    \E r1, r2 \in returned :
        /\ r1.of = "_get_async_httpx_client"
        /\ r2.of = "_get_httpx_client"
        /\ r1.params = r2.params
        /\ handlers[r1.id].kind = "async"
        /\ handlers[r2.id].kind = "sync"

BothProxiesSet == env.HTTP_PROXY.set /\ env.HTTPS_PROXY.set

\* C14: every constructed client, synchronous or asynchronous, has a
\* routing table with the keys "http://" and "https://" when both proxy
\* URLs are set, and no routing table at all when either is missing,
\* whatever the no-proxy list is.
C14_ProxyRoutingNeedsBoth ==
    \A i \in DOMAIN handlers :
        LET m == handlers[i].client.mounts
        IN IF BothProxiesSet
           THEN /\ m.installed
                /\ {"http://", "https://"} \subseteq DOMAIN m.table
           ELSE m = NoMounts

C14_Witness ==
    /\ BothProxiesSet
    /\ env.NO_PROXY.set
    /\ \E i, j \in DOMAIN handlers :
          /\ handlers[i].kind = "async"
          /\ handlers[j].kind = "sync"
          /\ handlers[i].client.mounts.installed
          /\ handlers[j].client.mounts.installed
          /\ "https://" \in DOMAIN handlers[i].client.mounts.table
          /\ "https://" \in DOMAIN handlers[j].client.mounts.table

\* C15: when routing is installed, every entry written in the no-proxy
\* list is a key of the routing table and maps to the direct connection,
\* also when the entry is one of the scheme keys.
C15_NoProxyEntriesDirect ==
    \A i \in DOMAIN handlers :
        LET m == handlers[i].client.mounts
            pieces == env.NO_PROXY.value
        IN (m.installed /\ env.NO_PROXY.set)
           => \A n \in DOMAIN pieces :
                 pieces[n] # ","
                 => /\ pieces[n] \in DOMAIN m.table
                    /\ m.table[pieces[n]] = Direct

C15_Witness ==
    /\ env.NO_PROXY = ListValue(<<"localhost", ",", "http://">>)
    /\ \E i, j \in DOMAIN handlers :
          /\ handlers[i].kind = "async"
          /\ handlers[j].kind = "sync"
          /\ \A h \in {i, j} :
                LET m == handlers[h].client.mounts
                IN /\ m.installed
                   /\ DOMAIN m.table = {"http://", "https://", "localhost"}
                   /\ m.table["localhost"] = Direct
                   /\ m.table["http://"] = Direct
                   /\ m.table["https://"] = Via(env.HTTPS_PROXY.value)

RequestOps == {"AsyncHTTPHandler.post", "HTTPHandler.post",
               "AsyncHTTPHandler.get", "HTTPHandler.get"}

\* C16 as stated: no get or post calls send on a client that has been
\* closed, whatever lookups and requests follow the close.
C16_NoRequestOnClosedPool ==
    \A t \in Threads :
        op[t] \in RequestOps
        => /\ pending[t] # Raises(ClosedError("pool"))
           /\ result[t] # Raises(ClosedError("pool"))

\* C17: a closed handler stays in the cache under the key it was
\* constructed for, it is the only handler ever constructed for that key,
\* and every lookup has returned what the cache holds for its key.
C17_ClosedHandlerStaysCached ==
    /\ \A i \in 1..Len(handlers) :
          handlers[i].client.closed
          => /\ handlers[i].madeFor \in DOMAIN cache
             /\ cache[handlers[i].madeFor] = i
             /\ MadeFor(handlers[i].madeFor) = {i}
    /\ \A r \in returned : cache[r.key] = r.id

C17_Witness ==
    \E t \in Threads :
        /\ pc[t] = "Done" /\ op[t] = "_get_httpx_client"
        /\ newClient[t] = 0
        /\ handlers[held[t]].client.closed
        /\ cache[handlers[held[t]].madeFor] = held[t]

\* The timeout of the client a miss constructs for params q.
TimeoutFor(q) ==
    IF ~q.given THEN LongLivedTimeout
    ELSE IF HasParam(q.items, "timeout") THEN TimeoutParam(q.items)
    ELSE _DEFAULT_TIMEOUT

\* C18 as stated: a miss without params constructs a 600s/5s client, a
\* miss with params that leave the timeout out constructs a 5s/5s client,
\* and every lookup without params returns a 600s/5s client.
C18_DefaultTimeouts ==
    /\ \A t \in Threads :
          pc[t] \in {"async_store", "sync_store"}
          => handlers[newClient[t]].client.timeout = TimeoutFor(params[t])
    /\ \A r \in returned :
          ~r.params.given => handlers[r.id].client.timeout = LongLivedTimeout

\* C19 as stated: the TLS flag of every constructed client is the boolean
\* meaning of the override when the override is set ("False" and "0"
\* disable verification) and the global default when it is not.
C19_VerifyIsBooleanMeaning ==
    \A i \in DOMAIN handlers :
        handlers[i].client.verify =
            IF env.SSL_VERIFY.set
            THEN env.SSL_VERIFY.value \in {"True", "true", "1"}
            ELSE env.litellm_ssl_verify

\* C20: while a post is on its fallback path, no step changes the
\* handlers (their pooled clients and stored timeouts) or the cache or the
\* handler the caller holds, and the fallback client has limit 1 and the
\* timeout of the handler's own client.
C20_FallbackIsolated ==
    [][ \A t \in Threads :
          (InAsyncPost(t) /\ pc[t] \in {"post_fallback"} \cup FallbackSection)
          => /\ handlers' = handlers
             /\ cache' = cache
             /\ held'[t] = held[t]
             /\ fallback'[t] # NoClient
             /\ fallback'[t].limit = SingleConnectionLimit
             /\ fallback'[t].timeout = Self(t).client.timeout
             /\ fallback'[t].timeout =
                   (IF Self(t).timeout = NoTimeout THEN _DEFAULT_TIMEOUT
                    ELSE Self(t).timeout) ]_vars

C20_Witness ==
    \E t \in Threads :
        /\ InAsyncPost(t) /\ pc[t] = "Done"
        /\ fallbacks[t] = 1
        /\ fallback[t].closed
        /\ fallback[t].limit = SingleConnectionLimit
        /\ fallback[t].timeout = LongLivedTimeout
        /\ Self(t).client.limit = DefaultConcurrentLimit
        /\ ~Self(t).client.closed

====
